---- MODULE Spec2Model ----
(***************************************************************************)
(* Model of pyo3's module support:                                         *)
(*   - pyo3cls/src/module.rs : the code generator for module initializers  *)
(*     (py3_init, py2_init), the function-export rewriting (wrap_fn) and   *)
(*     the per-function wrapper (impl_wrap);                               *)
(*   - src/objects/module.rs : the runtime PyModule wrapper (name,         *)
(*     str_from_ptr, add_class).                                           *)
(* Four specifications share the variables: Spec (a generated native entry *)
(* point running), SpecClass (sequences of add_class calls), SpecName (the *)
(* module name from annotation to name()), SpecGen (wrap_fn on an item).   *)
(***************************************************************************)
EXTENDS Integers, Sequences, FiniteSets, TLC

VARIABLES
  \* ---- a generated native entry point running (Spec)
  kind,        \* "py3" | "py2" : which initializer; "wrap" : function wrapper
  body,        \* the user's init body: the sequence of registrations it makes
  pc,          \* position in the generated function
  guard,       \* the AbortOnDrop guard: "none" | "armed" | "defused"
  defuses,     \* number of std::mem::forget(guard) executed
  errSlot,     \* the guest error slot: "none" or the pending error
  deposits,    \* number of restore() calls made by this layer
  ret,         \* the return value: "undecided" | "null" | "ptr" | "unit"
  module,      \* raw pointer from the allocation primitive: "none"|"null"|"ptr"
  handle,      \* TRUE once the pointer is wrapped in a PyModule handle
  guestCalls,  \* number of calls made into the guest runtime
  bodyCalled,  \* TRUE once the user's init body / host function is invoked
  idx,         \* next registration of the init body
  registered,  \* indices of the registrations done on the module
  result,      \* what the init body / host function returned
  \* ---- add_class calls (SpecClass)
  ready,       \* per type: Py_TPFLAGS_READY set in its type object
  inits,       \* per type: number of initialize_type invocations
  okInits,     \* per type: number of initialize_type invocations that succeeded
  attrs,       \* per module: attribute name -> value ("none" when unset)
  calls,       \* number of add_class / add calls made
  last,        \* the last call: its arguments and its outcome
  \* ---- module name round trip (SpecName)
  nkind, nname, nattr, nstage, cbName, mName, created, queried,
  \* ---- wrap_fn at generation time (SpecGen)
  item, gstage, gen

entryVars == <<kind, body, pc, guard, defuses, errSlot, deposits, ret, module,
               handle, guestCalls, bodyCalled, idx, registered, result>>
classVars == <<ready, inits, okInits, attrs, calls, last>>
nameVars  == <<nkind, nname, nattr, nstage, cbName, mName, created, queried>>
genVars   == <<item, gstage, gen>>
vars      == <<entryVars, classVars, nameVars, genVars>>

(***************************************************************************)
(* Bounds                                                                  *)
(***************************************************************************)
MaxItems == 2      \* registrations in an init body
MaxCalls == 3      \* add_class / add calls in one run
MaxNameLen == 2    \* characters of a module name
MaxAttrs == 2      \* attributes on an item
MaxParams == 2     \* parameters of a function declaration

SeqsUpTo(S, n) == UNION {[1..k -> S] : k \in 0..n}

(***************************************************************************)
(* Idle values of the variables a specification does not use               *)
(***************************************************************************)
EntryIdle ==
  /\ kind = "py3" /\ body = <<>> /\ pc = "Idle" /\ guard = "none"
  /\ defuses = 0 /\ errSlot = "none" /\ deposits = 0 /\ ret = "undecided"
  /\ module = "none" /\ handle = FALSE /\ guestCalls = 0
  /\ bodyCalled = FALSE /\ idx = 1 /\ registered = {} /\ result = "none"

NoCall == [op |-> "none", m |-> "none", t |-> "none", wasReady |-> FALSE,
           before |-> "none", same |-> TRUE, othersSame |-> TRUE,
           didInit |-> FALSE, initOk |-> TRUE, res |-> "none"]

\* a C string pointer: null, or the bytes it points to
NullPtr == [null |-> TRUE, bytes |-> <<>>]
Ptr(bytes) == [null |-> FALSE, bytes |-> bytes]
NoStr == [ok |-> FALSE, val |-> <<>>]

NameIdle ==
  /\ nkind = "py3" /\ nname = <<>> /\ nattr = <<>> /\ nstage = "idle"
  /\ cbName = <<>> /\ mName = <<>> /\ created = NullPtr /\ queried = NoStr

NoGen == [status |-> "none"]

GenIdle ==
  /\ item = [attrs |-> <<>>, isFn |-> TRUE, inputs |-> <<>>]
  /\ gstage = "idle" /\ gen = NoGen

(***************************************************************************)
(* Spec: a generated native entry point                                    *)
(***************************************************************************)
Kinds == {"py3", "py2", "wrap"}
ItemKinds == {"fn", "class"}

\* the value an initializer returns for a failure / for a success
FailRet(k) == IF k = "py2" THEN "unit" ELSE "null"
OkRet(k)   == IF k = "py2" THEN "unit" ELSE "ptr"

\* the entry point is called by the guest runtime with a clear error slot
EntryInit ==
  /\ kind \in Kinds
  /\ body \in IF kind = "wrap" THEN {<<>>} ELSE SeqsUpTo(ItemKinds, MaxItems)
  /\ pc = "Start" /\ guard = "none" /\ defuses = 0 /\ errSlot = "none"
  /\ deposits = 0 /\ ret = "undecided" /\ module = "none" /\ handle = FALSE
  /\ guestCalls = 0 /\ bodyCalled = FALSE /\ idx = 1 /\ registered = {}
  /\ result = "none"

\* let guard = AbortOnDrop(..)
ArmGuard ==
  /\ kind \in {"py3", "py2"} /\ pc = "Start"
  /\ guard' = "armed" /\ pc' = "Armed"
  /\ UNCHANGED <<classVars, nameVars, genVars>>
  /\ UNCHANGED <<kind, body, defuses, errSlot, deposits, ret, module, handle,
                 guestCalls, bodyCalled, idx, registered, result>>

\* Python::assume_gil_acquired(); PyEval_InitThreads()
InitThreads ==
  /\ kind \in {"py3", "py2"} /\ pc = "Armed"
  /\ guestCalls' = guestCalls + 1 /\ pc' = "Threads"
  /\ UNCHANGED <<classVars, nameVars, genVars>>
  /\ UNCHANGED <<kind, body, guard, defuses, errSlot, deposits, ret, module,
                 handle, bodyCalled, idx, registered, result>>

\* PyModule_Create / Py_InitModule: the guest runtime returns a module, or
\* null with its own error set in the error slot
Allocate ==
  /\ kind \in {"py3", "py2"} /\ pc = "Threads"
  /\ guestCalls' = guestCalls + 1 /\ pc' = "Allocated"
  /\ \/ module' = "ptr" /\ errSlot' = errSlot
     \/ module' = "null" /\ errSlot' = "AllocError"
  /\ UNCHANGED <<classVars, nameVars, genVars>>
  /\ UNCHANGED <<kind, body, guard, defuses, deposits, ret, handle,
                 bodyCalled, idx, registered, result>>

\* the mutant: the null check is missing and the pointer is wrapped anyway
AllocNull_FallThrough ==
  /\ kind \in {"py3", "py2"} /\ pc = "Allocated" /\ module = "null"
  /\ handle' = TRUE /\ pc' = "Wrapped"
  /\ UNCHANGED <<classVars, nameVars, genVars>>
  /\ UNCHANGED <<kind, body, guard, defuses, errSlot, deposits, ret, module,
                 guestCalls, bodyCalled, idx, registered, result>>

\* if module.is_null() { forget(guard); return module }
AllocNull ==
  /\ kind \in {"py3", "py2"} /\ pc = "Allocated" /\ module = "null"
  /\ ret' = FailRet(kind) /\ pc' = "Decided"
  /\ UNCHANGED <<classVars, nameVars, genVars>>
  /\ UNCHANGED <<kind, body, guard, defuses, errSlot, deposits, module,
                 handle, guestCalls, bodyCalled, idx, registered, result>>

\* PyObject::from_*_ptr(py, module).cast_into::<PyModule>(py)
WrapModule ==
  /\ kind \in {"py3", "py2"} /\ pc = "Allocated" /\ module = "ptr"
  /\ \/ /\ handle' = TRUE /\ pc' = "Wrapped"
        /\ UNCHANGED <<errSlot, deposits, ret>>
     \/ /\ handle' = FALSE
        /\ errSlot' = "CastError" /\ deposits' = deposits + 1
        /\ ret' = FailRet(kind) /\ pc' = "Decided"
  /\ UNCHANGED <<classVars, nameVars, genVars>>
  /\ UNCHANGED <<kind, body, guard, defuses, module, guestCalls, bodyCalled,
                 idx, registered, result>>

\* #fnname(py, &module): control enters the user's init body
CallBody ==
  /\ kind \in {"py3", "py2"} /\ pc = "Wrapped"
  /\ bodyCalled' = TRUE /\ pc' = "InBody"
  /\ UNCHANGED <<classVars, nameVars, genVars>>
  /\ UNCHANGED <<kind, body, guard, defuses, errSlot, deposits, ret, module,
                 handle, guestCalls, idx, registered, result>>

\* one registration of the init body: m.add(..)? / m.add_class::<T>()?
\* succeeds, returns Err out of the body, or panics
BodyStep ==
  /\ kind \in {"py3", "py2"} /\ pc = "InBody" /\ idx <= Len(body)
  /\ \/ /\ registered' = registered \cup {idx} /\ idx' = idx + 1
        /\ UNCHANGED <<pc, result>>
     \/ /\ result' = "Err" /\ pc' = "BodyReturned"
        /\ UNCHANGED <<idx, registered>>
     \/ /\ pc' = "Unwinding"
        /\ UNCHANGED <<idx, registered, result>>
  /\ UNCHANGED <<classVars, nameVars, genVars>>
  /\ UNCHANGED <<kind, body, guard, defuses, errSlot, deposits, ret, module,
                 handle, guestCalls, bodyCalled>>

\* the init body reaches its final Ok(())
BodyFinish ==
  /\ kind \in {"py3", "py2"} /\ pc = "InBody" /\ idx > Len(body)
  /\ result' = "Ok" /\ pc' = "BodyReturned"
  /\ UNCHANGED <<classVars, nameVars, genVars>>
  /\ UNCHANGED <<kind, body, guard, defuses, errSlot, deposits, ret, module,
                 handle, guestCalls, bodyCalled, idx, registered>>

\* the mutant: the Err arm restores the error a second time
MatchResult_RestoreTwice ==
  /\ kind \in {"py3", "py2"} /\ pc = "BodyReturned"
  /\ IF result = "Ok"
       THEN /\ ret' = OkRet(kind)
            /\ UNCHANGED <<errSlot, deposits>>
       ELSE /\ errSlot' = "BodyError" /\ deposits' = deposits + 2
            /\ ret' = FailRet(kind)
  /\ pc' = "Decided"
  /\ UNCHANGED <<classVars, nameVars, genVars>>
  /\ UNCHANGED <<kind, body, guard, defuses, module, handle, guestCalls,
                 bodyCalled, idx, registered, result>>

\* let ret = match #fnname(py, &module) { Ok => .., Err(e) => e.restore(py) }
MatchResult ==
  /\ kind \in {"py3", "py2"} /\ pc = "BodyReturned"
  /\ IF result = "Ok"
       THEN /\ ret' = OkRet(kind)
            /\ UNCHANGED <<errSlot, deposits>>
       ELSE /\ errSlot' = "BodyError" /\ deposits' = deposits + 1
            /\ ret' = FailRet(kind)
  /\ pc' = "Decided"
  /\ UNCHANGED <<classVars, nameVars, genVars>>
  /\ UNCHANGED <<kind, body, guard, defuses, module, handle, guestCalls,
                 bodyCalled, idx, registered, result>>

\* the mutant: an exit path that does not forget the guard
ForgetGuard_Missing ==
  /\ kind \in {"py3", "py2"} /\ pc = "Decided"
  /\ pc' = "Forgot"
  /\ UNCHANGED <<classVars, nameVars, genVars>>
  /\ UNCHANGED <<kind, body, guard, defuses, errSlot, deposits, ret, module,
                 handle, guestCalls, bodyCalled, idx, registered, result>>

\* std::mem::forget(guard)
ForgetGuard ==
  /\ kind \in {"py3", "py2"} /\ pc = "Decided"
  /\ guard' = "defused" /\ defuses' = defuses + 1 /\ pc' = "Forgot"
  /\ UNCHANGED <<classVars, nameVars, genVars>>
  /\ UNCHANGED <<kind, body, errSlot, deposits, ret, module, handle,
                 guestCalls, bodyCalled, idx, registered, result>>

\* return
Return ==
  /\ kind \in {"py3", "py2"} /\ pc = "Forgot"
  /\ pc' = "Done"
  /\ UNCHANGED <<classVars, nameVars, genVars>>
  /\ UNCHANGED <<kind, body, guard, defuses, errSlot, deposits, ret, module,
                 handle, guestCalls, bodyCalled, idx, registered, result>>

\* a panic unwinds out of the body: the guard is dropped while armed and
\* aborts the process
GuardDrop ==
  /\ pc = "Unwinding"
  /\ pc' = IF guard = "armed" THEN "Aborted" ELSE "Escaped"
  /\ UNCHANGED <<classVars, nameVars, genVars>>
  /\ UNCHANGED <<kind, body, guard, defuses, errSlot, deposits, ret, module,
                 handle, guestCalls, bodyCalled, idx, registered, result>>

\* cb_meth(LOCATION, |py| ..): installs the guard and runs the closure
CbMethEnter ==
  /\ kind = "wrap" /\ pc = "Start"
  /\ guard' = "armed" /\ pc' = "InClosure"
  /\ UNCHANGED <<classVars, nameVars, genVars>>
  /\ UNCHANGED <<kind, body, defuses, errSlot, deposits, ret, module, handle,
                 guestCalls, bodyCalled, idx, registered, result>>

\* the closure: views of args and kwargs, then result = { #body }: argument
\* binding, and on its success the call of the host function
WrapClosure ==
  /\ kind = "wrap" /\ pc = "InClosure"
  /\ \/ /\ result' = "BindErr" /\ pc' = "Convert" /\ UNCHANGED bodyCalled
     \/ /\ bodyCalled' = TRUE
        /\ \/ result' \in {"Ok", "Err"} /\ pc' = "Convert"
           \/ result' = result /\ pc' = "Unwinding"
  /\ UNCHANGED <<classVars, nameVars, genVars>>
  /\ UNCHANGED <<kind, body, guard, defuses, errSlot, deposits, ret, module,
                 handle, guestCalls, idx, registered>>

\* cb_convert(PyObjectCallbackConverter, py, result): Ok is converted to an
\* owned pointer (the conversion may fail), Err is restored
CbConvert ==
  /\ kind = "wrap" /\ pc = "Convert"
  /\ \/ /\ result = "Ok" /\ ret' = "ptr" /\ UNCHANGED <<errSlot, deposits>>
     \/ /\ result = "Ok" /\ ret' = "null"
        /\ errSlot' = "ConvError" /\ deposits' = deposits + 1
     \/ /\ result # "Ok" /\ ret' = "null"
        /\ errSlot' = result /\ deposits' = deposits + 1
  /\ pc' = "Converted"
  /\ UNCHANGED <<classVars, nameVars, genVars>>
  /\ UNCHANGED <<kind, body, guard, defuses, module, handle, guestCalls,
                 bodyCalled, idx, registered, result>>

\* cb_meth: forget the guard and return the closure's value
CbMethExit ==
  /\ kind = "wrap" /\ pc = "Converted"
  /\ guard' = "defused" /\ defuses' = defuses + 1 /\ pc' = "Done"
  /\ UNCHANGED <<classVars, nameVars, genVars>>
  /\ UNCHANGED <<kind, body, errSlot, deposits, ret, module, handle,
                 guestCalls, bodyCalled, idx, registered, result>>

EntryNext ==
  \/ ArmGuard \/ InitThreads \/ Allocate \/ AllocNull \/ WrapModule
  \/ CallBody \/ BodyStep \/ BodyFinish \/ MatchResult \/ ForgetGuard
  \/ Return \/ GuardDrop
  \/ CbMethEnter \/ WrapClosure \/ CbConvert \/ CbMethExit


(***************************************************************************)
(* SpecClass: PyModule::add_class on shared type objects                  *)
(***************************************************************************)
Types == {"T1", "T2"}
Modules == {"M1", "M2"}
AttrNames == {"A", "B"}

\* <T as PyTypeInfo>::type_name()
type_name(t) == IF t = "T1" THEN "A" ELSE "B"

NoAttrs == [m \in Modules |-> [n \in AttrNames |-> "none"]]

ClassIdle ==
  /\ ready = [t \in Types |-> FALSE] /\ inits = [t \in Types |-> 0]
  /\ okInits = [t \in Types |-> 0]
  /\ attrs = NoAttrs /\ calls = 0 /\ last = NoCall

ClassInit == ClassIdle

\* typeob::initialize_type: readies the type object; on success the type
\* object carries Py_TPFLAGS_READY
initialize_type(initOk) == [ok |-> initOk, readyAfter |-> initOk]

\* the mutant: the ready flag is not consulted
add_class_AlwaysInit(isReady, nameOk, initOk, setOk) ==
  IF ~nameOk
    THEN [didInit |-> FALSE, readyAfter |-> isReady, res |-> "Err",
          set |-> FALSE]
  ELSE IF ~initialize_type(initOk).ok
    THEN [didInit |-> TRUE, readyAfter |-> isReady, res |-> "Panic",
          set |-> FALSE]
  ELSE [didInit |-> TRUE, readyAfter |-> TRUE,
        res |-> IF setOk THEN "Ok" ELSE "Err", set |-> setOk]

\* the mutant: a failed initialization is propagated with `?`
add_class_InitErr(isReady, nameOk, initOk, setOk) ==
  IF isReady
    THEN [didInit |-> FALSE, readyAfter |-> TRUE,
          res |-> IF setOk THEN "Ok" ELSE "Err", set |-> setOk]
  ELSE IF ~nameOk
    THEN [didInit |-> FALSE, readyAfter |-> FALSE, res |-> "Err",
          set |-> FALSE]
  ELSE IF ~initialize_type(initOk).ok
    THEN [didInit |-> TRUE, readyAfter |-> FALSE, res |-> "Err",
          set |-> FALSE]
  ELSE [didInit |-> TRUE, readyAfter |-> TRUE,
        res |-> IF setOk THEN "Ok" ELSE "Err", set |-> setOk]

\* PyModule::add_class::<T>() on a type whose ready flag is isReady;
\* nameOk, initOk, setOk: whether self.name(), initialize_type and setattr
\* succeed when they are reached
add_class(isReady, nameOk, initOk, setOk) ==
  IF isReady
    THEN [didInit |-> FALSE, readyAfter |-> TRUE,
          res |-> IF setOk THEN "Ok" ELSE "Err", set |-> setOk]
  ELSE IF ~nameOk
    THEN [didInit |-> FALSE, readyAfter |-> FALSE, res |-> "Err",
          set |-> FALSE]
  ELSE IF ~initialize_type(initOk).ok
    THEN [didInit |-> TRUE, readyAfter |-> FALSE, res |-> "Panic",
          set |-> FALSE]
  ELSE [didInit |-> TRUE, readyAfter |-> initialize_type(initOk).readyAfter,
        res |-> IF setOk THEN "Ok" ELSE "Err", set |-> setOk]

\* the attributes other than attribute n of module m are the same in a and b
OthersSame(a, b, m, n) ==
  \A m2 \in Modules, n2 \in AttrNames :
    (m2 # m \/ n2 # n) => a[m2][n2] = b[m2][n2]

\* one call m.add_class::<t>(); a panic unwinds to the caller, and a caller
\* that survives it can call again
AddClass ==
  /\ calls < MaxCalls
  /\ \E m \in Modules, t \in Types, nameOk, initOk, setOk \in BOOLEAN :
       LET r == add_class(ready[t], nameOk, initOk, setOk) IN
         /\ ready' = [ready EXCEPT ![t] = r.readyAfter]
         /\ inits' = [inits EXCEPT ![t] = @ + (IF r.didInit THEN 1 ELSE 0)]
         /\ okInits' = [okInits EXCEPT
                          ![t] = @ + (IF r.didInit /\ initOk THEN 1 ELSE 0)]
         /\ attrs' = IF r.set
                       THEN [attrs EXCEPT ![m][type_name(t)] = t]
                       ELSE attrs
         /\ last' = [op |-> "add_class", m |-> m, t |-> t,
                     wasReady |-> ready[t],
                     before |-> attrs[m][type_name(t)],
                     same |-> (attrs' = attrs),
                     othersSame |-> OthersSame(attrs', attrs, m, type_name(t)),
                     didInit |-> r.didInit, initOk |-> initOk, res |-> r.res]
  /\ calls' = calls + 1
  /\ UNCHANGED <<entryVars, nameVars, genVars>>

\* the values given to add: a function object or a type object
Values == {"F"} \cup Types

\* PyModule::add(name, value): self.setattr(name, value)
Add ==
  /\ calls < MaxCalls
  /\ \E m \in Modules, n \in AttrNames, v \in Values, setOk \in BOOLEAN :
       /\ attrs' = IF setOk THEN [attrs EXCEPT ![m][n] = v] ELSE attrs
       /\ last' = [op |-> "add", m |-> m, t |-> v, wasReady |-> FALSE,
                   before |-> attrs[m][n], same |-> (attrs' = attrs),
                   othersSame |-> OthersSame(attrs', attrs, m, n),
                   didInit |-> FALSE, initOk |-> TRUE,
                   res |-> IF setOk THEN "Ok" ELSE "Err"]
  /\ calls' = calls + 1
  /\ UNCHANGED <<ready, inits, okInits, entryVars, nameVars, genVars>>

ClassNext == AddClass \/ Add

(***************************************************************************)
(* SpecName: the module name from the annotation to name()                *)
(***************************************************************************)
Chars == {"a", "b"}
Names == SeqsUpTo(Chars, MaxNameLen) \ {<<>>}
Pads == {<<>>, <<" ">>}

RECURSIVE TrimLeft(_)
TrimLeft(s) == IF s # <<>> /\ Head(s) = " " THEN TrimLeft(Tail(s)) ELSE s

RECURSIVE TrimRight(_)
TrimRight(s) ==
  IF s # <<>> /\ s[Len(s)] = " " THEN TrimRight(SubSeq(s, 1, Len(s) - 1))
  ELSE s

\* str::trim
trim(s) == TrimRight(TrimLeft(s))

\* &attr.to_string()[1..attr.to_string().len()-1]
modname_of(attr) == SubSeq(attr, 2, Len(attr) - 1)

\* py3_init: the exported symbol, and the name stored in MODULE_DEF.m_name
py3_init(name) ==
  LET cb_name == <<"P", "y", "I", "n", "i", "t", "_">> \o trim(name) IN
    [cb_name |-> cb_name, m_name |-> cb_name]

\* py2_init: the exported symbol, and the name given to Py_InitModule
py2_init(name) ==
  LET cb_name == <<"i", "n", "i", "t">> \o trim(name) IN
    [cb_name |-> cb_name, m_name |-> cb_name]

\* PyModule::str_from_ptr: null is an error, else the bytes decoded as UTF-8
str_from_ptr(ptr) ==
  IF ptr.null THEN [ok |-> FALSE, val |-> <<>>]
  ELSE IF \E i \in 1..Len(ptr.bytes) : ptr.bytes[i] = "\\xff"
    THEN [ok |-> FALSE, val |-> <<>>]
  ELSE [ok |-> TRUE, val |-> ptr.bytes]

NameInit ==
  /\ nkind \in {"py3", "py2"} /\ nname \in Names
  /\ nattr \in {<<"(">> \o p \o nname \o q \o <<")">> : p \in Pads, q \in Pads}
  /\ nstage = "annot" /\ cbName = <<>> /\ mName = <<>>
  /\ created = NullPtr /\ queried = NoStr

\* build_py3_module_init -> py3_init(&ast.ident, &modname)
NamePy3Init ==
  /\ nstage = "annot" /\ nkind = "py3"
  /\ cbName' = py3_init(modname_of(nattr)).cb_name
  /\ mName' = py3_init(modname_of(nattr)).m_name
  /\ nstage' = "generated"
  /\ UNCHANGED <<nkind, nname, nattr, created, queried>>
  /\ UNCHANGED <<entryVars, classVars, genVars>>

\* build_py2_module_init -> py2_init(&ast.ident, &modname)
NamePy2Init ==
  /\ nstage = "annot" /\ nkind = "py2"
  /\ cbName' = py2_init(modname_of(nattr)).cb_name
  /\ mName' = py2_init(modname_of(nattr)).m_name
  /\ nstage' = "generated"
  /\ UNCHANGED <<nkind, nname, nattr, created, queried>>
  /\ UNCHANGED <<entryVars, classVars, genVars>>

\* the initializer runs: PyModule_Create(&MODULE_DEF) / Py_InitModule(name)
\* creates a module whose __name__ is the name it is given, or returns null
NameRunInit ==
  /\ nstage = "generated"
  /\ created' \in {Ptr(mName), NullPtr}
  /\ nstage' = "ran"
  /\ UNCHANGED <<nkind, nname, nattr, cbName, mName, queried>>
  /\ UNCHANGED <<entryVars, classVars, genVars>>

\* PyModule::name(): str_from_ptr(PyModule_GetName(module)); GetName is
\* null when the module has lost its __name__
NameQuery ==
  /\ nstage = "ran" /\ ~created.null
  /\ \E p \in {created, NullPtr} : queried' = str_from_ptr(p)
  /\ nstage' = "queried"
  /\ UNCHANGED <<nkind, nname, nattr, cbName, mName, created>>
  /\ UNCHANGED <<entryVars, classVars, genVars>>

NameNext == NamePy3Init \/ NamePy2Init \/ NameRunInit \/ NameQuery


(***************************************************************************)
(* SpecGen: wrap_fn on one item of a module-init body                     *)
(***************************************************************************)
\* an element of a pyfn(..) annotation: a bare identifier or a string literal
MetaKinds == {"word", "str"}
MaxMeta == 3
\* an attribute: #[pyfn(meta)] or any other attribute
Attrs == [pyfn : {TRUE}, meta : SeqsUpTo(MetaKinds, MaxMeta)]
           \cup {[pyfn |-> FALSE, meta |-> <<>>]}
\* a parameter: self, the token (identifier pattern of type Python), a
\* value (identifier pattern of another type), a non-identifier pattern,
\* an ignored parameter
ParamKinds == {"self", "tok", "val", "pat", "ign"}
Items == [attrs : SeqsUpTo(Attrs, MaxAttrs), isFn : BOOLEAN,
          inputs : SeqsUpTo(ParamKinds, MaxParams)]

\* the body of the "pyfn" arm for attribute i: string literals are named by
\* the attribute they are written in, 0 is None
PyfnAttr(st, meta, i) ==
  LET s1 == IF Len(meta) >= 2
              THEN [st EXCEPT !.modname = IF meta[1] = "word" THEN i ELSE 0,
                              !.fnname = IF meta[2] = "str" THEN i ELSE 0]
              ELSE [st EXCEPT !.modname = 0, !.printed = TRUE]
  IN IF Len(meta) >= 3
       THEN IF meta[3] = "str" THEN [s1 EXCEPT !.fn_attrs = i]
                               ELSE [s1 EXCEPT !.modname = 0]
       ELSE s1

\* for attr in item.attrs.iter() { .. }
RECURSIVE ScanAttrs(_, _, _)
ScanAttrs(as, i, st) ==
  IF i > Len(as) THEN st
  ELSE IF as[i].pyfn THEN ScanAttrs(as, i + 1, PyfnAttr(st, as[i].meta, i))
  ELSE ScanAttrs(as, i + 1, [st EXCEPT !.new_attrs = Append(@, i)])

\* for input in decl.inputs.iter() { .. }: the guest-visible arguments, by
\* position in the declaration (the optional flag computed by
\* method::check_arg_ty_and_optional is not part of the argument list)
RECURSIVE ScanInputs(_, _, _, _)
ScanInputs(ins, j, py, args) ==
  IF j > Len(ins) THEN [panic |-> "none", py |-> py, args |-> args]
  ELSE IF ins[j] = "self" THEN ScanInputs(ins, j + 1, py, args)
  ELSE IF ins[j] = "ign"
    THEN [panic |-> "ignored argument", py |-> py, args |-> args]
  ELSE IF ins[j] = "pat"
    THEN [panic |-> "unsupported argument", py |-> py, args |-> args]
  ELSE IF ~py /\ ins[j] = "tok" THEN ScanInputs(ins, j + 1, TRUE, args)
  ELSE ScanInputs(ins, j + 1, py, Append(args, j))

\* impl_wrap: the generated call #name(py, #(#names),*); 0 is the token
impl_wrap(args) == <<0>> \o args

\* wrap_fn(item)
wrap_fn(it) ==
  LET st == ScanAttrs(it.attrs, 1, [fnname |-> 0, modname |-> 0,
                                    fn_attrs |-> 0, new_attrs |-> <<>>,
                                    printed |-> FALSE])
      sc == ScanInputs(it.inputs, 1, FALSE, <<>>)
      none == [status |-> "None", panic |-> "none", printed |-> st.printed,
               new_attrs |-> st.new_attrs, fnname |-> st.fnname,
               modname |-> st.modname, args |-> <<>>, call |-> <<>>]
  IN IF st.fnname = 0 THEN none
     ELSE IF st.modname = 0 THEN none
     ELSE IF ~it.isFn THEN none
     ELSE IF sc.panic # "none"
       THEN [none EXCEPT !.status = "Panic", !.panic = sc.panic]
     ELSE [none EXCEPT !.status = "Some", !.args = sc.args,
                       !.call = impl_wrap(sc.args)]

\* build_py3_module_init / build_py2_module_init on a body of one item:
\* the item is replaced by its registration block when wrap_fn returns one
\* and is kept as it is otherwise; a panic aborts the generation
build_module_init(it, abi) ==
  LET w == wrap_fn(it) IN
    [abi |-> abi,
     status |-> IF w.status = "Panic" THEN "aborted" ELSE "generated",
     exported |-> (w.status = "Some"),
     diagnostic |-> IF w.status = "Panic" THEN w.panic
                    ELSE IF w.printed THEN "printed" ELSE "none",
     new_attrs |-> w.new_attrs, fnname |-> w.fnname, modname |-> w.modname,
     args |-> w.args, call |-> w.call]

GenInit == item \in Items /\ gstage = "source" /\ gen = NoGen

build_py3_module_init ==
  /\ gstage = "source"
  /\ gen' = build_module_init(item, "py3") /\ gstage' = "expanded"
  /\ UNCHANGED <<item, entryVars, classVars, nameVars>>

build_py2_module_init ==
  /\ gstage = "source"
  /\ gen' = build_module_init(item, "py2") /\ gstage' = "expanded"
  /\ UNCHANGED <<item, entryVars, classVars, nameVars>>

GenNext == build_py3_module_init \/ build_py2_module_init

(***************************************************************************)
(* Specifications                                                          *)
(***************************************************************************)
Init == EntryInit /\ ClassIdle /\ NameIdle /\ GenIdle
Next == EntryNext
Spec == Init /\ [][Next]_vars

InitClass == EntryIdle /\ ClassInit /\ NameIdle /\ GenIdle
NextClass == ClassNext
SpecClass == InitClass /\ [][NextClass]_vars

InitName == EntryIdle /\ ClassIdle /\ NameInit /\ GenIdle
NextName == NameNext
SpecName == InitName /\ [][NextName]_vars

InitGen == EntryIdle /\ ClassIdle /\ NameIdle /\ GenInit
NextGen == GenNext
SpecGen == InitGen /\ [][NextGen]_vars


(***************************************************************************)
(* Properties of the generated entry points (Spec)                        *)
(***************************************************************************)
IsInit == kind \in {"py3", "py2"}
AllocFailed == module = "null"
WrapFailed == module = "ptr" /\ ~handle /\ pc \in {"Decided", "Forgot", "Done"}
BodyFailed == result = "Err"
InitFailed == AllocFailed \/ WrapFailed \/ BodyFailed

\* C1: every entry point (py3 initializer, py2 initializer,
\* function wrapper) returns null if and only if the guest error slot is set
\* when it returns.
C1_NullIffErrorEverywhere ==
  pc = "Done" => ((ret = "null") <=> (errSlot # "none"))

\* C2: when wrapping fails or the init body returns failure, the
\* failure is restored into the error slot and the initializer returns the
\* null sentinel; a module whose init body did not complete is never
\* returned as a success.
C2_FailureReturnsNull ==
  (IsInit /\ pc = "Done") =>
    /\ WrapFailed => errSlot = "CastError" /\ ret = "null"
    /\ BodyFailed => errSlot = "BodyError" /\ ret = "null"
    /\ ret = "ptr" => result = "Ok"

\* C3 as stated: on every failure path of an initializer (allocation null,
\* wrapping failed, init body failed) this layer deposits an error into the
\* error slot exactly once.
C3_OneDepositOnEveryFailure ==
  (IsInit /\ pc = "Done" /\ InitFailed) => deposits = 1

\* C3 amended: on the wrapping-failure and init-body-failure paths this
\* layer deposits an error exactly once before returning; on the
\* allocation-null path it deposits nothing and returns with the error the
\* allocation primitive left in the slot; no path deposits twice.
C3_DepositsPerPath ==
  /\ IsInit => deposits <= 1
  /\ (IsInit /\ pc = "Done") =>
       /\ AllocFailed => deposits = 0 /\ errSlot = "AllocError"
       /\ (WrapFailed \/ BodyFailed) => deposits = 1
       /\ ~InitFailed => deposits = 0

C3_Witness ==
  pc = "Done" /\ IsInit /\ AllocFailed /\ deposits = 0 /\
  errSlot = "AllocError"

\* C4: in both initializers the guard is created before any call into the
\* guest runtime or the init body; on every returning path it is defused
\* exactly once, after the return value is decided and any error restored;
\* it is armed during the whole init body, so an unwind reaches it armed.
C4_GuardSpansInitializer ==
  IsInit =>
    /\ guard = "none" => guestCalls = 0 /\ ~bodyCalled /\ module = "none"
    /\ defuses <= 1
    /\ pc = "Done" => defuses = 1 /\ guard = "defused"
    /\ guard = "defused" =>
         /\ ret # "undecided"
         /\ InitFailed => errSlot # "none"
    /\ pc \in {"InBody", "BodyReturned", "Unwinding", "Aborted"} =>
         guard = "armed" /\ defuses = 0
    /\ pc # "Escaped"

C4_Witness ==
  /\ IsInit /\ pc = "Done" /\ bodyCalled /\ result = "Err"
  /\ guard = "defused" /\ defuses = 1

\* C5: if the allocation primitive returns null the initializer goes
\* directly to its failure return: the init body is never invoked, no
\* module handle is created and nothing is registered.
C5_AllocNullSkipsBody ==
  (IsInit /\ module = "null") =>
    /\ ~bodyCalled /\ ~handle /\ registered = {} /\ result = "none"
    /\ pc \in {"Allocated", "Decided", "Forgot", "Done"}
    /\ pc # "Allocated" => ret = FailRet(kind)

C5_Witness ==
  module = "null" /\ pc = "Done" /\ Len(body) > 0 /\ ~bodyCalled

(***************************************************************************)
(* Properties of add_class (SpecClass)                                    *)
(***************************************************************************)
\* C6 as stated: first-time initialization of a type runs at most once
\* over any sequence of add_class calls; a call that finds the ready flag
\* set does not initialize again; a repeated successful add_class on the
\* same module leaves the type registered under the attribute named by its
\* type name, the module as the first call left it.
C6_InitAtMostOnce ==
  /\ \A t \in Types : inits[t] <= 1
  /\ (last.op = "add_class" /\ last.wasReady) => ~last.didInit
  /\ (last.op = "add_class" /\ last.res = "Ok") =>
       /\ attrs[last.m][type_name(last.t)] = last.t
       /\ last.before = last.t => last.same

\* C6 amended: a call that finds the ready flag set does not initialize
\* again, so first-time initialization of a type succeeds at most once; it
\* is invoked again only by a call made after a failed initialization,
\* which panicked and left the flag unset. A successful add_class sets the
\* attribute named by the type's name to the type and no other attribute,
\* and a repeated one on the same module leaves the module unchanged.
C6_InitSucceedsOnceRegisterOnce ==
  /\ \A t \in Types :
       /\ okInits[t] <= 1
       /\ ready[t] <=> okInits[t] = 1
       /\ inits[t] > 1 => inits[t] - okInits[t] >= 1
  /\ (last.op = "add_class" /\ last.wasReady) => ~last.didInit
  /\ (last.op = "add_class" /\ last.didInit /\ inits[last.t] > 1) =>
       ~last.wasReady /\ inits[last.t] - okInits[last.t] >= 1
  /\ (last.op = "add_class" /\ last.res = "Ok") =>
       /\ attrs[last.m][type_name(last.t)] = last.t
       /\ last.othersSame
       /\ last.before = last.t => last.same

C6_Witness ==
  /\ calls >= 2 /\ last.op = "add_class" /\ last.res = "Ok"
  /\ last.wasReady /\ last.before = last.t
  /\ okInits[last.t] = 1 /\ attrs[last.m][type_name(last.t)] = last.t

\* C8: on a type that is not ready, a failure of first-time initialization
\* is a panic, never an Err result, and the call does not set the module
\* attribute for the type.
C8_InitFailurePanics ==
  (last.op = "add_class" /\ last.didInit /\ ~last.initOk) =>
    /\ last.res = "Panic"
    /\ last.same
    /\ attrs[last.m][type_name(last.t)] = last.before

C8_Witness ==
  /\ last.op = "add_class" /\ last.didInit /\ ~last.initOk
  /\ ~last.wasReady /\ last.res = "Panic" /\ last.before = "none"
  /\ calls >= 2

(***************************************************************************)
(* Properties of the module name (SpecName)                               *)
(***************************************************************************)
\* C7: the module created by the generated initializer (py3 and py2)
\* reports from name() exactly the name given in the annotation.
C7_NameRoundTrip ==
  (nstage = "queried" /\ queried.ok) => queried.val = nname

(***************************************************************************)
(* Properties of the function-export rewriting (SpecGen)                  *)
(***************************************************************************)
PyfnAttrs(it) == {i \in 1..Len(it.attrs) : it.attrs[i].pyfn}

\* a malformed or conflicting function-export annotation, or an exported
\* function with an unsupported parameter
Malformed(it) ==
  \/ \E i \in PyfnAttrs(it) :
       LET meta == it.attrs[i].meta IN
         \/ Len(meta) < 2
         \/ meta[1] # "word"
         \/ meta[2] # "str"
         \/ Len(meta) >= 3 /\ meta[3] # "str"
  \/ Cardinality(PyfnAttrs(it)) >= 2
  \/ /\ PyfnAttrs(it) # {}
     /\ \E j \in 1..Len(it.inputs) : it.inputs[j] \in {"pat", "ign"}

\* C9: every malformed or conflicting function-export annotation aborts the
\* generation with a diagnostic naming the declaration or parameter;
\* generation never completes leaving the function unexported or exported
\* under one of two conflicting names.
C9_MalformedAborts ==
  (gstage = "expanded" /\ Malformed(item)) =>
    /\ gen.status = "aborted"
    /\ gen.diagnostic \in {"ignored argument", "unsupported argument"}

\* the parameters of the declaration, by position, self excluded
RECURSIVE Declared(_, _)
Declared(ins, j) ==
  IF j > Len(ins) THEN <<>>
  ELSE IF ins[j] = "self" THEN Declared(ins, j + 1)
  ELSE <<j>> \o Declared(ins, j + 1)

\* C10: only a token-typed first parameter is taken out of the guest-visible
\* list and supplied implicitly; a token-typed parameter in a later position
\* stays guest-visible; the generated call passes the token only when the
\* declaration declares one, so the call's arguments match the declaration's
\* parameters in count and order.
C10_CallMatchesDeclaration ==
  (gstage = "expanded" /\ gen.exported) =>
    LET decl == Declared(item.inputs, 1)
        tokFirst == decl # <<>> /\ item.inputs[decl[1]] = "tok"
        visible == IF tokFirst THEN Tail(decl) ELSE decl
    IN /\ gen.args = visible
       /\ gen.call = (IF tokFirst THEN <<0>> ELSE <<>>) \o visible
       /\ Len(gen.call) = Len(decl)

====
